---- MODULE Spec2Model ----
(***************************************************************************)
(* Govee BLE lights: the connection lifecycle manager                      *)
(* (custom_components/govee_ble_lights/coordinator.py).                    *)
(*                                                                         *)
(* One GoveeBLECoordinator is modelled.  The coroutines run on one asyncio *)
(* event loop, so a step of the model is the code a coroutine runs between *)
(* two suspension points: the await of a contended lock, of               *)
(* establish_connection, of write_gatt_char and of BleakClient.disconnect. *)
(* The transport (bleak), the address resolver and the radio link are the  *)
(* environment: each awaited transport call returns or raises BleakError,  *)
(* a live link can drop at any time, the device can become (in)visible.    *)
(* A link drop is taken at the moment the program next looks at the link   *)
(* (is_connected, the end of a write): until then it changes nothing.      *)
(* Time is abstracted: a pending timer may fire whenever the loop is free. *)
(* Clients and timers are named by numbers; a number is used again once    *)
(* nothing refers to the object it named.                                  *)
(*                                                                         *)
(* The packet encoders (protocol.py and the legacy govee_ble.py) are pure  *)
(* functions.  They are operators here, computed as the code computes      *)
(* them, and ProtoSpec applies each of them once to an argument drawn from *)
(* a bounded set.                                                          *)
(***************************************************************************)
EXTENDS Integers, Sequences, FiniteSets, TLC

\* ------------------------------------------------------------------ bounds
\* Number of send_command calls issued in one behaviour, each by a coroutine
\* of its own (an entity service call); they may all be in flight together.
MaxCalls == 2
\* Number of disconnect() coroutines that may be unfinished at a time.
MaxDisc == 1
\* Longest params / payload given to build_packet and prepare_packet.
MaxParams == 19
\* Longest header and longest data given to prepare_multi_packet.
MaxHeader == 17
MaxData == 50
\* Longest segment list given to build_segment_color.
MaxSegs == 2
\* How far outside 0..255 the numeric arguments of the builders go.
Excess == 2
\* Number of async_turn_on / async_turn_off calls that may be in flight
\* together; any number of calls is made one after the other.
MaxLightCalls == 1

\* ------------------------------------------------------- program constants
\* for attempt in range(3)
MAX_ATTEMPTS == 3

Callers == 1..MaxCalls
\* The names of clients and of timers.  At a time something refers to at
\* most the clients of the attempts of one call, the clients being closed
\* and the cached one; and to at most the pending timer and the one in
\* self._disconnect_timer.
MaxIds == MAX_ATTEMPTS + MaxDisc + 2
Ids == 1..MaxIds

VARIABLES
    client,            \* self._client: 0 is None, else a BleakClient
    liveConns,         \* the clients whose is_connected is True
    closeCalled,       \* the clients on which disconnect() has been called
    holder,            \* self._lock: 0 is free, else the caller that owns it
    waiters,           \* self._lock: the FIFO of callers waiting for it
    disconnect_timer,  \* self._disconnect_timer: 0 is None, else a timer
    pending,           \* the timers scheduled and neither cancelled nor fired
    tasks,             \* number of disconnect tasks created by a timer and
                       \* not yet started
    overtaken,         \* how many of them come from a timer that was
                       \* scheduled before the latest rearm
    pc,                \* per caller: where its send_command is suspended
    attempt,           \* the loop variable of the send_command in the lock
    cur,               \* the local variable client of that send_command
    ret,               \* how the last send_command that left the lock ended
    log,               \* what the send_command in the lock (or the last one
                       \* that left it) did, in order
    closing,           \* per client: the number of disconnect tasks that
                       \* await its BleakClient.disconnect()
    unload,            \* where the disconnect() of async_unload_entry stands
    unloadConn,        \* the client it is closing
    \* The packet encoders (protocol.py, govee_ble.py, GoveeBLE.py) are pure
    \* functions; the last call made to one of them is recorded.
    op,                \* the function called, "none" before the first call
    args,              \* its arguments
    out,               \* what it returned, <<>> if it raised
    err,               \* the exception it raised, "none" if it returned
    \* The optimistic state of the light (coordinator.py:43-47, light.py:77).
    is_on,
    brightness_pct,
    rgb_color,
    color_temp_kelvin, \* 0 is None
    effect,            \* "None" is None
    color_mode,        \* self._attr_color_mode
    lpc,               \* per light call: the await it is suspended at
    kwargs,            \* per light call: its keyword arguments
    sent,              \* per light call: the frames it gave to send_command
    sendq              \* the light calls whose send_command has not ended,
                       \* in the order they will get the lock

vars == <<client, liveConns, closeCalled, holder, waiters, disconnect_timer,
          pending, tasks, overtaken, pc, attempt, cur, ret, log, closing,
          unload, unloadConn, op, args, out, err, is_on, brightness_pct,
          rgb_color, color_temp_kelvin, effect, color_mode, lpc, kwargs, sent,
          sendq>>

timerVars == <<disconnect_timer, pending, tasks, overtaken>>
lockVars == <<holder, waiters>>
taskVars == <<pc, attempt, cur, ret, log>>
discVars == <<closing, unload, unloadConn>>
protoVars == <<op, args, out, err>>
fieldVars == <<is_on, brightness_pct, rgb_color, color_temp_kelvin, effect,
               color_mode>>
lightVars == <<fieldVars, lpc, kwargs, sent, sendq>>
coordVars == <<client, liveConns, closeCalled, holder, waiters,
               disconnect_timer, pending, tasks, overtaken, pc, attempt, cur,
               ret, log, closing, unload, unloadConn>>

\* ------------------------------------------------------------------ helpers
Min(S) == CHOOSE x \in S : \A y \in S : x <= y

\* The clients a log names.
LogConns(lg) == {lg[i][2] : i \in DOMAIN lg}

\* A new BleakClient object: a name nothing refers to.
NewClient ==
    Min(Ids \ ({client, cur, unloadConn} \cup {c \in Ids : closing[c] > 0}
                 \cup LogConns(log) \cup liveConns \cup closeCalled))

\* A new TimerHandle: a name nothing refers to.
NewTimer == Min(Ids \ (pending \cup {disconnect_timer}))

\* The links and the closed clients after a step, given what the step made
\* of them: a client is followed as long as the coordinator, a coroutine or
\* the log refers to it.
Track(live, closed) ==
    LET refs == {client', cur', unloadConn'}
                  \cup {c \in Ids : closing'[c] > 0} \cup LogConns(log')
    IN  /\ liveConns' = live \cap refs
        /\ closeCalled' = closed \cap refs

\* self._client and self._client.is_connected: what the test may yield.  A
\* live link may have dropped since the program last looked at it.
IsConnected(c) == IF c # 0 /\ c \in liveConns THEN {TRUE, FALSE} ELSE {FALSE}

\* The live links once client c was seen connected (up) or not.
Seen(c, up) == IF up THEN liveConns ELSE liveConns \ {c}

\* if self._disconnect_timer: self._disconnect_timer.cancel()
CancelNothing(h) == {}
CancelTimer(h) == IF h # 0 THEN {h} ELSE {}

\* _reset_disconnect_timer: cancel what is scheduled, schedule a new timer.
\* A timer that has fired is not undone: its task is overtaken.
reset_disconnect_timer ==
    /\ pending' = (pending \ CancelTimer(disconnect_timer)) \cup {NewTimer}
    /\ disconnect_timer' = NewTimer
    /\ tasks' = tasks
    /\ overtaken' = tasks

\* except BleakError: self._client = None
KeepHandle(c) == c
InvalidateHandle(c) == 0

\* async with self._lock: the lock is taken without suspending only when it
\* is free and nobody waits for it
LockAlwaysFree == TRUE
LockFree == holder = 0 /\ waiters = <<>>

\* Leaving "async with self._lock": the lock goes to the first waiter, if any
KeepLock(t) == t
NextHolder(t) == IF waiters = <<>> THEN 0 ELSE Head(waiters)

\* send_command(t) leaves the with block with outcome r ("ok" or "error").
Return(t, r, lg) ==
    /\ holder' = NextHolder(t)
    /\ waiters' = IF waiters = <<>> THEN <<>> ELSE Tail(waiters)
    /\ pc' = [u \in Callers |->
                IF u = t THEN "done"
                ELSE IF waiters # <<>> /\ u = Head(waiters) /\ NextHolder(t) = u
                     THEN "locked" ELSE pc[u]]
    /\ ret' = r
    /\ log' = lg
    /\ attempt' = 0
    /\ cur' = 0

\* The log of the attempts a..2 when the device is not found: every attempt
\* resolves the address, raises BleakError and clears self._client.
NotFoundLog(a) ==
    [i \in 1..(2 * (MAX_ATTEMPTS - a)) |->
        IF i % 2 = 1 THEN <<"notfound", 0>> ELSE <<"invalidate", 0>>]

\* The body of the retry loop of send_command from attempt a on, entered with
\* self._client = c, up to its next suspension point or its return.  The
\* resolver answers the same way as long as the loop does not suspend.
\* up is what "self._client and self._client.is_connected" yields.
RunAttempts(t, a, c, up, lg) ==
    IF up
    THEN \* _ensure_connected returns the cached client; write_gatt_char starts
         /\ client' = c
         /\ reset_disconnect_timer
         /\ holder' = t /\ waiters' = waiters
         /\ pc' = [pc EXCEPT ![t] = "writing"]
         /\ attempt' = a
         /\ cur' = c
         /\ log' = Append(lg, <<"reuse", c>>)
         /\ ret' = "none"
    ELSE \E found \in BOOLEAN :
           IF ~found
           THEN \* raise BleakError("not found"): caught by the loop, which
                \* goes on without suspending until attempt == 2 re-raises
                /\ client' = InvalidateHandle(c)
                /\ UNCHANGED timerVars
                /\ Return(t, "error", lg \o NotFoundLog(a))
           ELSE \* establish_connection starts
                /\ client' = c
                /\ UNCHANGED timerVars
                /\ holder' = t /\ waiters' = waiters
                /\ pc' = [pc EXCEPT ![t] = "connecting"]
                /\ attempt' = a
                /\ cur' = 0
                /\ log' = Append(lg, <<"resolve", 0>>)
                /\ ret' = "none"

\* except BleakError in send_command, after an attempt failed with
\* self._client = c; live are the links that are up.
OnBleakError(t, c, live, lg) ==
    LET lg2 == Append(lg, <<"invalidate", 0>>)
        c2 == InvalidateHandle(c)
    IN  IF attempt = MAX_ATTEMPTS - 1
        THEN /\ client' = c2
             /\ UNCHANGED timerVars
             /\ Return(t, "error", lg2)
        ELSE RunAttempts(t, attempt + 1, c2, c2 # 0 /\ c2 \in live, lg2)

\* ------------------------------------------------------------------- Init
Init ==
    /\ client = 0
    /\ liveConns = {}
    /\ closeCalled = {}
    /\ holder = 0
    /\ waiters = <<>>
    /\ disconnect_timer = 0
    /\ pending = {}
    /\ tasks = 0
    /\ overtaken = 0
    /\ pc = [t \in Callers |-> "idle"]
    /\ attempt = 0
    /\ cur = 0
    /\ ret = "none"
    /\ log = <<>>
    /\ closing = [c \in Ids |-> 0]
    /\ unload = "none"
    /\ unloadConn = 0
    /\ op = "none"
    /\ args = <<>>
    /\ out = <<>>
    /\ err = "none"
    /\ is_on = FALSE
    /\ brightness_pct = 100
    /\ rgb_color = <<255, 255, 255>>
    /\ color_temp_kelvin = 0
    /\ effect = "None"
    /\ color_mode = "RGB"
    /\ lpc = [c \in 1..MaxLightCalls |-> "idle"]
    /\ kwargs = [c \in 1..MaxLightCalls |-> <<>>]
    /\ sent = [c \in 1..MaxLightCalls |-> <<>>]
    /\ sendq = <<>>

\* ---------------------------------------------------------------- actions
\* The entities are unloaded once the disconnect() of async_unload_entry has
\* ended: no call is issued after that.
Unloaded == unload \in {"done", "swallowed", "raised"}

\* The callers are interchangeable: they issue their calls in index order.
MayCall(t) ==
    /\ pc[t] = "idle"
    /\ \A u \in Callers : u < t => pc[u] # "idle"
    /\ ~Unloaded

\* send_command is called and takes the free lock: it runs on into
\* _ensure_connected without suspending.
send_command(t) ==
    /\ MayCall(t)
    /\ LockFree
    /\ UNCHANGED discVars
    /\ \E up \in IsConnected(client) :
          /\ RunAttempts(t, 0, client, up, <<>>)
          /\ Track(Seen(client, up), closeCalled)
    /\ UNCHANGED <<protoVars, lightVars>>

\* send_command is called while the lock is taken: it queues.
send_command_wait(t) ==
    /\ MayCall(t)
    /\ ~LockFree
    /\ waiters' = Append(waiters, t)
    /\ pc' = [pc EXCEPT ![t] = "waitLock"]
    /\ UNCHANGED <<client, liveConns, closeCalled, holder, timerVars, attempt,
                   cur, ret, log, discVars>>
    /\ UNCHANGED <<protoVars, lightVars>>

\* A caller that was handed the lock resumes and enters the loop.
lock_acquired(t) ==
    /\ pc[t] = "locked"
    /\ holder = t
    /\ UNCHANGED discVars
    /\ \E up \in IsConnected(client) :
          /\ RunAttempts(t, 0, client, up, <<>>)
          /\ Track(Seen(client, up), closeCalled)
    /\ UNCHANGED <<protoVars, lightVars>>

\* establish_connection returns a new connected client.
connect_ok(t) ==
    /\ pc[t] = "connecting"
    /\ client' = NewClient
    /\ reset_disconnect_timer
    /\ pc' = [pc EXCEPT ![t] = "writing"]
    /\ cur' = NewClient
    /\ log' = Append(log, <<"connect", NewClient>>)
    /\ UNCHANGED <<lockVars, attempt, ret, discVars>>
    /\ Track(liveConns \cup {NewClient}, closeCalled)
    /\ UNCHANGED <<protoVars, lightVars>>

\* establish_connection raises BleakError.
connect_fail(t) ==
    /\ pc[t] = "connecting"
    /\ OnBleakError(t, client, liveConns, Append(log, <<"connfail", 0>>))
    /\ UNCHANGED discVars
    /\ Track(liveConns, closeCalled)
    /\ UNCHANGED <<protoVars, lightVars>>

\* write_gatt_char returns: only a live link carries the write.
write_ok(t) ==
    /\ pc[t] = "writing"
    /\ cur \in liveConns
    /\ Return(t, "ok", Append(log, <<"write", cur>>))
    /\ UNCHANGED <<client, timerVars, discVars>>
    /\ Track(liveConns, closeCalled)
    /\ UNCHANGED <<protoVars, lightVars>>

\* write_gatt_char raises BleakError (the link may or may not still be up).
write_fail(t) ==
    /\ pc[t] = "writing"
    /\ \E up \in IsConnected(cur) :
          /\ OnBleakError(t, client, Seen(cur, up),
                          Append(log, <<"writefail", cur>>))
          /\ UNCHANGED discVars
          /\ Track(Seen(cur, up), closeCalled)
    /\ UNCHANGED <<protoVars, lightVars>>

\* The number of disconnect() coroutines that have not ended.
ActiveDisc ==
    LET RECURSIVE Sum(_)
        Sum(n) == IF n = 0 THEN 0 ELSE closing[n] + Sum(n - 1)
    IN  tasks + Sum(MaxIds) + (IF unload = "closing" THEN 1 ELSE 0)

\* The call_later callback runs: hass.async_create_task(self.disconnect()).
timer_fires(k) ==
    /\ k \in pending
    /\ ActiveDisc < MaxDisc
    /\ pending' = pending \ {k}
    /\ tasks' = tasks + 1
    /\ UNCHANGED <<client, liveConns, closeCalled, lockVars, disconnect_timer,
                   overtaken, taskVars, discVars>>
    /\ UNCHANGED <<protoVars, lightVars>>

\* disconnect() up to its await: cancel and clear the timer, then either
\* start closing the connected client or return.  byTask tells the task of
\* a timer from the coroutine awaited by async_unload_entry.
disconnect_begin(byTask) ==
    /\ pending' = pending \ CancelTimer(disconnect_timer)
    /\ disconnect_timer' = 0
    /\ \E up \in IsConnected(client) :
          /\ IF up /\ byTask
             THEN closing' = [closing EXCEPT ![client] = @ + 1]
             ELSE closing' = closing
          /\ IF byTask
             THEN UNCHANGED <<unload, unloadConn>>
             ELSE /\ unload' = IF up THEN "closing" ELSE "done"
                  /\ unloadConn' = IF up THEN client ELSE 0
          /\ UNCHANGED <<client, lockVars, taskVars>>
          /\ Track(Seen(client, up),
                   IF up THEN closeCalled \cup {client} ELSE closeCalled)

\* A task created by the idle timer starts running disconnect(); late tells
\* whether its timer was scheduled before the latest rearm.
disconnect_task(late) ==
    /\ IF late THEN overtaken > 0 ELSE tasks > overtaken
    /\ tasks' = tasks - 1
    /\ overtaken' = IF late THEN overtaken - 1 ELSE overtaken
    /\ disconnect_begin(TRUE)
    /\ UNCHANGED <<protoVars, lightVars>>

\* async_unload_entry awaits coordinator.disconnect().
async_unload_entry ==
    /\ unload = "none"
    /\ ActiveDisc < MaxDisc
    /\ UNCHANGED <<tasks, overtaken>>
    /\ disconnect_begin(FALSE)
    /\ UNCHANGED <<protoVars, lightVars>>

\* How disconnect() ends after BleakClient.disconnect() raised BleakError:
\* except BleakError logs it and the coroutine returns.
Escalate == "raised"
SwallowBleakError == "swallowed"

\* finally: self._client = None
ClearClient(c) == 0

\* BleakClient.disconnect() returns to a timer's task: the link is down.
close_ok(c) ==
    /\ closing[c] > 0
    /\ client' = ClearClient(client)
    /\ closing' = [closing EXCEPT ![c] = @ - 1]
    /\ UNCHANGED <<lockVars, timerVars, taskVars, unload, unloadConn>>
    /\ Track(liveConns \ {c}, closeCalled)
    /\ UNCHANGED <<protoVars, lightVars>>

\* BleakClient.disconnect() raises BleakError in a timer's task: the link
\* stays as it was.
close_fail(c) ==
    /\ closing[c] > 0
    /\ client' = ClearClient(client)
    /\ closing' = [closing EXCEPT ![c] = @ - 1]
    /\ UNCHANGED <<lockVars, timerVars, taskVars, unload, unloadConn>>
    /\ Track(liveConns, closeCalled)
    /\ UNCHANGED <<protoVars, lightVars>>

\* BleakClient.disconnect() returns to the disconnect() of async_unload_entry.
unload_close_ok ==
    /\ unload = "closing"
    /\ client' = ClearClient(client)
    /\ unload' = "done"
    /\ unloadConn' = 0
    /\ UNCHANGED <<lockVars, timerVars, taskVars, closing>>
    /\ Track(liveConns \ {unloadConn}, closeCalled)
    /\ UNCHANGED <<protoVars, lightVars>>

\* BleakClient.disconnect() raises BleakError there.
unload_close_fail ==
    /\ unload = "closing"
    /\ client' = ClearClient(client)
    /\ unload' = SwallowBleakError
    /\ unloadConn' = 0
    /\ UNCHANGED <<lockVars, timerVars, taskVars, closing>>
    /\ Track(liveConns, closeCalled)
    /\ UNCHANGED <<protoVars, lightVars>>

Next ==
    \/ \E t \in Callers : send_command(t)
    \/ \E t \in Callers : send_command_wait(t)
    \/ \E t \in Callers : lock_acquired(t)
    \/ \E t \in Callers : connect_ok(t)
    \/ \E t \in Callers : connect_fail(t)
    \/ \E t \in Callers : write_ok(t)
    \/ \E t \in Callers : write_fail(t)
    \/ \E k \in Ids : timer_fires(k)
    \/ \E late \in BOOLEAN : disconnect_task(late)
    \/ async_unload_entry
    \/ \E c \in Ids : close_ok(c)
    \/ \E c \in Ids : close_fail(c)
    \/ unload_close_ok
    \/ unload_close_fail

Spec == Init /\ [][Next]_vars

\* Every awaited transport call returns or raises, and the event loop resumes
\* a coroutine whose awaited future is done.
FairSpec ==
    /\ Spec
    /\ \A t \in Callers :
          /\ WF_vars(lock_acquired(t))
          /\ WF_vars(connect_ok(t) \/ connect_fail(t))
          /\ WF_vars(write_ok(t) \/ write_fail(t))

\* ==================================================== the packet encoders
\* protocol.py, govee-ble-lights/govee_ble.py.  A call returns a value or
\* raises: both are the result of the operator that models the function.
Ok(v) == [val |-> v, err |-> "none"]
Raise(e) == [val |-> <<>>, err |-> e]

Max(S) == CHOOSE x \in S : \A y \in S : x >= y
IsByte(x) == x \in 0..255
Zeros(n) == [i \in 1..n |-> 0]

\* Python's ^, | and & on non-negative integers.
RECURSIVE BitXor(_, _)
BitXor(a, b) ==
    IF a = 0 THEN b
    ELSE IF b = 0 THEN a
    ELSE (((a % 2) + (b % 2)) % 2) + 2 * BitXor(a \div 2, b \div 2)
RECURSIVE BitOr(_, _)
BitOr(a, b) ==
    IF a = 0 THEN b
    ELSE IF b = 0 THEN a
    ELSE Max({a % 2, b % 2}) + 2 * BitOr(a \div 2, b \div 2)
\* x & 0xFF; Python's % gives the same for a negative x (two's complement).
Mask8(x) == x % 256

\* def xor_checksum(data): checksum = 0; for b in data: checksum ^= b
RECURSIVE XorFrom(_, _)
XorFrom(checksum, data) ==
    IF data = <<>> THEN checksum
    ELSE XorFrom(BitXor(checksum, Head(data)), Tail(data))
ZeroChecksum(data) == 0
xor_checksum(data) == XorFrom(0, data)

\* data[:19]
KeepAll(data) == data
Truncate19(data) == SubSeq(data, 1, Min({19, Len(data)}))
\* while len(data) < 19: data.append(0x00)
Pad19(data) == data \o Zeros(19 - Len(data))

\* bytearray(list) raises ValueError unless every item is in range(256).
build_packet(cmd_type, action, params) ==
    LET raw == <<cmd_type, action>> \o params
        data == Pad19(Truncate19(raw))
    IN  IF \E i \in DOMAIN raw : ~IsByte(raw[i])
        THEN Raise("ValueError")
        ELSE Ok(Append(data, xor_checksum(data)))

\* max(lo, min(hi, x))
NoClamp(lo, hi, x) == x
Clamp(lo, hi, x) == Max({lo, Min({hi, x})})

build_power(on) == build_packet(51, 1, <<IF on THEN 1 ELSE 0>>)

build_brightness(percent) == build_packet(51, 4, <<Clamp(0, 100, percent)>>)

build_color_rgb(r, g, b) ==
    build_packet(51, 5, <<21, 1, Clamp(0, 255, r), Clamp(0, 255, g),
                          Clamp(0, 255, b), 0, 0, 0, 0, 0, 255, 127>>)

\* kelvin_to_rgb: the three curves before max(0.0, min(255.0, .)) and int(),
\* rounded down, at the temperatures temp = kelvin / 100 the inputs reach.
RedCurve == [t \in {67, 100} |-> IF t = 67 THEN 254 ELSE 201]
GreenCurve ==
    (10 :> 67) @@ (19 :> 131) @@ (20 :> 136) @@ (27 :> 166) @@ (65 :> 254)
    @@ (66 :> 255) @@ (67 :> 248) @@ (100 :> 218)
BlueCurve == (20 :> 13) @@ (27 :> 87) @@ (65 :> 250)
kelvin_to_rgb(kelvin) ==
    LET temp == Clamp(1000, 10000, kelvin) \div 100
        red == IF temp <= 66 THEN 255 ELSE Clamp(0, 255, RedCurve[temp])
        green == Clamp(0, 255, GreenCurve[temp])
        blue == IF temp >= 66 THEN 255
                ELSE IF temp <= 19 THEN 0
                ELSE Clamp(0, 255, BlueCurve[temp])
    IN  <<red, green, blue>>

build_color_temp(kelvin) ==
    LET rgb == kelvin_to_rgb(kelvin)
    IN  build_color_rgb(rgb[1], rgb[2], rgb[3])

build_scene(scene_id) == build_packet(51, 5, <<4, scene_id>>)

build_music_mode(mode_id, sensitivity) ==
    build_packet(51, 5, <<19, mode_id, sensitivity>>)

\* for seg in segments: if 1 <= seg <= 15: mask |= 1 << (seg - 1)
AnySegment(seg) == seg >= 1
InRange(seg) == 1 <= seg /\ seg <= 15
RECURSIVE SegMask(_, _)
SegMask(mask, segments) ==
    IF segments = <<>> THEN mask
    ELSE SegMask(IF InRange(Head(segments))
                 THEN BitOr(mask, 2 ^ (Head(segments) - 1))
                 ELSE mask,
                 Tail(segments))

build_segment_color(r, g, b, segments) ==
    LET mask == SegMask(0, segments)
        seg_lo == Mask8(mask)
        seg_hi == Mask8(mask \div 256)
    IN  build_packet(51, 5, <<21, 1, Clamp(0, 255, r), Clamp(0, 255, g),
                              Clamp(0, 255, b), 0, 0, 0, 0, 0, seg_lo, seg_hi>>)

\* GoveeBLE.prepare_packet of govee_ble.py: the isinstance checks pass for
\* an int and a list of int; bytes(payload) raises ValueError for an item
\* outside range(256).
prepare_packet(cmd, payload) ==
    IF Len(payload) > 17 THEN Raise("ValueError")
    ELSE IF \E i \in DOMAIN payload : ~IsByte(payload[i])
    THEN Raise("ValueError")
    ELSE LET frame == <<51, Mask8(cmd)>> \o payload
             padded == frame \o Zeros(19 - Len(frame))
         IN  Ok(Append(padded, Mask8(XorFrom(0, padded))))

\* def sign_payload(self, data)
sign_payload(data) == Mask8(XorFrom(0, data))

\* Python's s[a:b] and s[a:b] = v on an array.array (positions from 0, a
\* negative position counts from the end, positions are clipped to the
\* length; an assigned slice takes the length of v).
PyIdx(i, n) == IF i < 0 THEN Max({i + n, 0}) ELSE Min({i, n})
PySlice(s, a, b) ==
    LET lo == PyIdx(a, Len(s))
        hi == PyIdx(b, Len(s))
    IN  IF hi <= lo THEN <<>> ELSE SubSeq(s, lo + 1, hi)
PySliceAssign(s, a, b, v) ==
    LET lo == PyIdx(a, Len(s))
        hi == Max({lo, PyIdx(b, Len(s))})
    IN  SubSeq(s, 1, lo) \o v \o SubSeq(s, hi + 1, Len(s))

\* if remainder > 0: chunks += 1 / else: remainder = 17
NoFullLastChunk(excess) ==
    [chunks |-> (excess \div 17) + (IF excess % 17 > 0 THEN 1 ELSE 0),
     remainder |-> excess % 17]
ChunkPlan(excess) ==
    IF excess % 17 > 0
    THEN [chunks |-> (excess \div 17) + 1, remainder |-> excess % 17]
    ELSE [chunks |-> excess \div 17, remainder |-> 17]

\* chunk_buffer[1] = i
ConstantIndex(i) == 1
ChunkIndex(i) == i

\* The body of 'for i in range(1, chunks + 1)' for one i.  An
\* array.array('B') item assignment raises OverflowError for a value outside
\* range(256) and IndexError for a position outside the array.
ChunkStep(i, plan, protocol_type, data, st) ==
    IF st.err # "none" THEN st
    ELSE
      LET chunk_size == IF i = plan.chunks THEN plan.remainder ELSE 17
          chunk == PySliceAssign(Zeros(17), 0, chunk_size,
                       PySlice(data, st.current_index,
                               st.current_index + chunk_size))
          moved == [st EXCEPT !.current_index = @ + chunk_size]
          chunk_buffer ==
              PySliceAssign([Zeros(20) EXCEPT ![1] = protocol_type,
                                              ![2] = ChunkIndex(i)],
                            2, 2 + chunk_size, chunk)
      IN  IF i = plan.chunks
          THEN [moved EXCEPT !.additional =
                   PySliceAssign(@, 2, 2 + chunk_size,
                                 PySlice(chunk, 0, chunk_size))]
          ELSE IF ~IsByte(ChunkIndex(i))
          THEN [moved EXCEPT !.err = "OverflowError"]
          ELSE IF Len(chunk_buffer) < 20
          THEN [moved EXCEPT !.err = "IndexError"]
          ELSE [moved EXCEPT !.result = Append(@,
                   [chunk_buffer EXCEPT ![20] =
                       sign_payload(PySlice(chunk_buffer, 0, 19))])]

\* The iterations lo..hi of the loop, one after the other (the range is
\* halved so that the evaluation does not nest as deep as the loop is long).
RECURSIVE ChunkLoop(_, _, _, _, _, _)
ChunkLoop(lo, hi, plan, protocol_type, data, st) ==
    IF lo > hi \/ st.err # "none" THEN st
    ELSE IF lo = hi THEN ChunkStep(lo, plan, protocol_type, data, st)
    ELSE LET mid == (lo + hi) \div 2
             half == ChunkLoop(lo, mid, plan, protocol_type, data, st)
         IN  ChunkLoop(mid + 1, hi, plan, protocol_type, data, half)

\* GoveeBLE.prepare_multi_packet of govee_ble.py, called with a byte
\* protocol_type and array.array('B') arguments.
prepare_multi_packet(protocol_type, header_array, data) ==
    LET header_length == Len(header_array)
        header_offset == header_length + 4
        initial0 ==
            PySliceAssign([Zeros(20) EXCEPT ![1] = protocol_type, ![3] = 1],
                          4, header_offset, header_array)
        additional0 == [Zeros(20) EXCEPT ![1] = protocol_type, ![2] = 255]
        remaining_space == 14 - header_length + 1
        fits == Len(data) <= remaining_space
        plan == ChunkPlan(Len(data) - remaining_space)
        initial1 ==
            IF fits
            THEN PySliceAssign(initial0, header_offset,
                               header_offset + Len(data), data)
            ELSE PySliceAssign(initial0, header_offset,
                               header_offset + remaining_space,
                               PySlice(data, 0, remaining_space))
        st0 == [result |-> <<>>, additional |-> additional0,
                current_index |-> remaining_space, err |-> "none"]
        st == IF fits THEN st0
              ELSE ChunkLoop(1, plan.chunks, plan, protocol_type, data, st0)
        count == Len(st.result) + 2
        initial2 == [initial1 EXCEPT ![4] = count]
    IN  IF st.err # "none" THEN Raise(st.err)
        ELSE IF ~IsByte(count) THEN Raise("OverflowError")
        ELSE IF Len(initial2) < 20 \/ Len(st.additional) < 20
        THEN Raise("IndexError")
        ELSE Ok(<<[initial2 EXCEPT ![20] =
                        sign_payload(PySlice(initial2, 0, 19))]>>
                \o st.result
                \o <<[st.additional EXCEPT ![20] =
                        sign_payload(PySlice(st.additional, 0, 19))]>>)

\* ------------------------------------------------ the calls that are made
\* A byte sequence of length n: base, base + 1, ... (mod 256).
ByteSeq(n, base) == [i \in 1..n |-> (base + i - 1) % 256]
Bases == {0, 100, 250}
\* Command type and action values: bytes and wider integers.
CmdInputs == {0, 1, 51, 170, 255, 256, 307}
\* Numeric arguments: in range, at the limits and outside.
IntInputs == (0 - Excess)..(255 + Excess)
IntSamples == {0 - Excess, -1, 0, 1, 100, 101, 127, 254, 255, 256, 255 + Excess}
KelvinInputs == {500, 1000, 1900, 2000, 2700, 6500, 6600, 6700, 10000, 20000}
SegInputs == -1..17
SegLists == UNION {[1..n -> SegInputs] : n \in 0..MaxSegs}
SegColors == {<<255, 0, 0>>, <<0 - Excess, 128, 255 + Excess>>,
              <<256, -1, 7>>, <<1, 300, -300>>}
ProtocolTypes == {0, 163, 255}

\* One encoder call is made in a behaviour and its result recorded.
Called(name, a, res) ==
    /\ op' = name
    /\ args' = a
    /\ out' = res.val
    /\ err' = res.err
    /\ UNCHANGED <<coordVars, lightVars>>

Call_build_packet ==
    /\ op = "none"
    /\ \E cmd_type \in CmdInputs, action \in CmdInputs,
          n \in 0..MaxParams, base \in Bases :
          Called("build_packet", <<cmd_type, action, ByteSeq(n, base)>>,
                 build_packet(cmd_type, action, ByteSeq(n, base)))

Call_build_power ==
    /\ op = "none"
    /\ \E on \in BOOLEAN : Called("build_power", <<on>>, build_power(on))

Call_build_brightness ==
    /\ op = "none"
    /\ \E percent \in IntInputs :
          Called("build_brightness", <<percent>>, build_brightness(percent))

Call_build_color_rgb ==
    /\ op = "none"
    /\ \E r \in IntSamples, g \in IntSamples, b \in IntSamples :
          Called("build_color_rgb", <<r, g, b>>, build_color_rgb(r, g, b))

Call_build_color_temp ==
    /\ op = "none"
    /\ \E kelvin \in KelvinInputs :
          Called("build_color_temp", <<kelvin>>, build_color_temp(kelvin))

Call_build_scene ==
    /\ op = "none"
    /\ \E scene_id \in IntSamples :
          Called("build_scene", <<scene_id>>, build_scene(scene_id))

Call_build_music_mode ==
    /\ op = "none"
    /\ \E mode_id \in IntSamples, sensitivity \in IntSamples :
          Called("build_music_mode", <<mode_id, sensitivity>>,
                 build_music_mode(mode_id, sensitivity))

Call_build_segment_color ==
    /\ op = "none"
    /\ \E c \in SegColors, segments \in SegLists :
          Called("build_segment_color", <<c[1], c[2], c[3], segments>>,
                 build_segment_color(c[1], c[2], c[3], segments))

Call_prepare_packet ==
    /\ op = "none"
    /\ \E cmd \in CmdInputs \cup {-1}, n \in 0..MaxParams, base \in Bases :
          Called("prepare_packet", <<cmd, ByteSeq(n, base)>>,
                 prepare_packet(cmd, ByteSeq(n, base)))

Call_prepare_multi_packet ==
    /\ op = "none"
    /\ \E protocol_type \in ProtocolTypes, h \in 0..MaxHeader,
          n \in 0..MaxData, base \in Bases :
          Called("prepare_multi_packet",
                 <<protocol_type, ByteSeq(h, 1), ByteSeq(n, base)>>,
                 prepare_multi_packet(protocol_type, ByteSeq(h, 1),
                                      ByteSeq(n, base)))

\* Calls with data so long that the frame count reaches the limit of the
\* byte that holds it: 254 chunks after the initial frame, or one byte more.
LongLens(h) == {(15 - h) + 17 * 254, (15 - h) + 17 * 254 + 1}
Call_prepare_multi_packet_long ==
    /\ op = "none"
    /\ \E protocol_type \in {163}, h \in {0, 15}, base \in {0, 250} :
          \E n \in LongLens(h) :
             Called("prepare_multi_packet",
                    <<protocol_type, ByteSeq(h, 1), ByteSeq(n, base)>>,
                    prepare_multi_packet(protocol_type, ByteSeq(h, 1),
                                         ByteSeq(n, base)))

ProtoNext ==
    \/ Call_build_packet
    \/ Call_build_power
    \/ Call_build_brightness
    \/ Call_build_color_rgb
    \/ Call_build_color_temp
    \/ Call_build_scene
    \/ Call_build_music_mode
    \/ Call_build_segment_color
    \/ Call_prepare_packet
    \/ Call_prepare_multi_packet
    \/ Call_prepare_multi_packet_long

ProtoSpec == Init /\ [][ProtoNext]_vars

\* =========================================================== the light
\* light.py: GoveeBLELight.async_turn_on / async_turn_off.  A call awaits
\* coordinator.send_command once per frame; what runs between two awaits is
\* one step.  send_command is taken here by its contract: a call to it waits
\* its turn for the lock (asyncio.Lock is first come, first served), then
\* returns or raises BleakError.
LCallers == 1..MaxLightCalls
NoneKelvin == 0
NoBrightness == -1
NoColor == <<>>

\* SCENE_IDS of protocol.py
SCENE_IDS ==
    [name \in {"sunrise", "sunset", "movie", "dating", "romantic", "blinking",
               "candlelight", "snowflake", "rainbow"} |->
        CASE name = "sunrise" -> 0
          [] name = "sunset" -> 1
          [] name = "movie" -> 4
          [] name = "dating" -> 5
          [] name = "romantic" -> 7
          [] name = "blinking" -> 8
          [] name = "candlelight" -> 9
          [] name = "snowflake" -> 15
          [] name = "rainbow" -> 22]

\* The keyword arguments of a call: a value, or the mark of an absent key.
BrightnessInputs == {NoBrightness, 128}
ColorInputs == {NoColor, <<255, 0, 128>>}
TempInputs == {NoneKelvin, 2700}
EffectInputs == {"absent", "rainbow", "disco"}
Kwargs ==
    [brightness : BrightnessInputs, rgb_color : ColorInputs,
     color_temp_kelvin : TempInputs, effect : EffectInputs]
NoKwargs ==
    [brightness |-> NoBrightness, rgb_color |-> NoColor,
     color_temp_kelvin |-> NoneKelvin, effect |-> "absent"]

\* brightness_pct = max(1, min(100, int(brightness_255 * 100 / 255)))
brightness_pct_of(brightness_255) ==
    Clamp(1, 100, (brightness_255 * 100) \div 255)

\* The awaits of async_turn_on in program order, and whether the if around
\* each is taken.
SwappedOrder ==
    <<"power", "rgb_color", "brightness", "color_temp_kelvin", "effect">>
Order == <<"power", "brightness", "rgb_color", "color_temp_kelvin", "effect">>
Taken(p, kw) ==
    CASE p = "power" -> TRUE
      [] p = "brightness" -> kw.brightness # NoBrightness
      [] p = "rgb_color" -> kw.rgb_color # NoColor
      [] p = "color_temp_kelvin" -> kw.color_temp_kelvin # NoneKelvin
      [] p = "effect" -> kw.effect # "absent" /\ kw.effect \in DOMAIN SCENE_IDS
Pos(p) == CHOOSE i \in DOMAIN Order : Order[i] = p
\* The next await after the one at p, "done" if the call reaches its end.
NextPos(p, kw) ==
    LET later == {i \in DOMAIN Order : i > Pos(p) /\ Taken(Order[i], kw)}
    IN  IF later = {} THEN "done" ELSE Order[Min(later)]

Awaiting == {"power", "off", "brightness", "rgb_color", "color_temp_kelvin",
             "effect"}

\* The frame each await submits.
PowerOn == build_power(TRUE).val
PowerOff == build_power(FALSE).val
FrameOf(p, kw) ==
    CASE p = "power" -> PowerOn
      [] p = "off" -> PowerOff
      [] p = "brightness" ->
            build_brightness(brightness_pct_of(kw.brightness)).val
      [] p = "rgb_color" ->
            build_color_rgb(kw.rgb_color[1], kw.rgb_color[2],
                            kw.rgb_color[3]).val
      [] p = "color_temp_kelvin" ->
            build_color_temp(kw.color_temp_kelvin).val
      [] p = "effect" -> build_scene(SCENE_IDS[kw.effect]).val

\* The optimistic state fields assigned after the await at p has returned.
FieldsOf(p) ==
    CASE p = "power" -> {"is_on", "effect"}
      [] p = "off" -> {"is_on"}
      [] p = "brightness" -> {"brightness_pct"}
      [] p = "rgb_color" ->
            {"rgb_color", "color_mode", "color_temp_kelvin", "effect"}
      [] p = "color_temp_kelvin" ->
            {"color_temp_kelvin", "color_mode", "effect"}
      [] p = "effect" -> {"effect"}
\* The fields assigned when the await at p raises: the exception leaves the
\* coroutine at once.
AsIfReturned(p) == FieldsOf(p)
FieldsOnRaise(p) == {}

\* The assignments to the fields fs that follow the await at p.
Assign(fs, p, kw) ==
    /\ is_on' = IF "is_on" \in fs THEN p # "off" ELSE is_on
    /\ brightness_pct' =
          IF "brightness_pct" \in fs THEN brightness_pct_of(kw.brightness)
          ELSE brightness_pct
    /\ rgb_color' = IF "rgb_color" \in fs THEN kw.rgb_color ELSE rgb_color
    /\ color_temp_kelvin' =
          IF "color_temp_kelvin" \in fs
          THEN (IF p = "color_temp_kelvin" THEN kw.color_temp_kelvin
                ELSE NoneKelvin)
          ELSE color_temp_kelvin
    /\ color_mode' =
          IF "color_mode" \in fs
          THEN (IF p = "rgb_color" THEN "RGB" ELSE "COLOR_TEMP")
          ELSE color_mode
    /\ effect' =
          IF "effect" \in fs
          THEN (IF p = "effect" THEN kw.effect ELSE "None")
          ELSE effect

\* A call is named by the first name that no call in flight has; what is
\* recorded of the ended call that had the name is dropped.
MayCallLight(c) ==
    /\ lpc[c] \notin Awaiting
    /\ \A d \in LCallers : d < c => lpc[d] \in Awaiting

\* async_turn_on(**kwargs) up to its first await.
async_turn_on(c) ==
    /\ MayCallLight(c)
    /\ \E kw \in Kwargs :
          /\ kwargs' = [kwargs EXCEPT ![c] = kw]
          /\ sent' = [sent EXCEPT ![c] = <<FrameOf("power", kw)>>]
    /\ lpc' = [lpc EXCEPT ![c] = "power"]
    /\ sendq' = Append(sendq, c)
    /\ UNCHANGED <<fieldVars, coordVars, protoVars>>

\* async_turn_off() up to its await.
async_turn_off(c) ==
    /\ MayCallLight(c)
    /\ kwargs' = [kwargs EXCEPT ![c] = NoKwargs]
    /\ sent' = [sent EXCEPT ![c] = <<FrameOf("off", NoKwargs)>>]
    /\ lpc' = [lpc EXCEPT ![c] = "off"]
    /\ sendq' = Append(sendq, c)
    /\ UNCHANGED <<fieldVars, coordVars, protoVars>>

\* The send_command a call awaits returns: the call assigns the fields of the
\* frame and runs to its next await or to its end.
send_returns(c) ==
    /\ sendq # <<>> /\ Head(sendq) = c
    /\ Assign(FieldsOf(lpc[c]), lpc[c], kwargs[c])
    /\ LET next == IF lpc[c] = "off" THEN "done"
                   ELSE NextPos(lpc[c], kwargs[c])
       IN  /\ lpc' = [lpc EXCEPT ![c] = next]
           /\ IF next = "done"
              THEN /\ sendq' = Tail(sendq)
                   /\ sent' = sent
              ELSE /\ sendq' = Append(Tail(sendq), c)
                   /\ sent' = [sent EXCEPT ![c] =
                                  Append(@, FrameOf(next, kwargs[c]))]
    /\ UNCHANGED <<kwargs, coordVars, protoVars>>

\* The send_command a call awaits raises: the call ends with the exception.
send_raises(c) ==
    /\ sendq # <<>> /\ Head(sendq) = c
    /\ Assign(FieldsOnRaise(lpc[c]), lpc[c], kwargs[c])
    /\ lpc' = [lpc EXCEPT ![c] = "raised"]
    /\ sendq' = Tail(sendq)
    /\ UNCHANGED <<kwargs, sent, coordVars, protoVars>>

LightNext ==
    \/ \E c \in LCallers : async_turn_on(c)
    \/ \E c \in LCallers : async_turn_off(c)
    \/ \E c \in LCallers : send_returns(c)
    \/ \E c \in LCallers : send_raises(c)

LightSpec == Init /\ [][LightNext]_vars

\* ------------------------------------------------------- reading the log
Count(lg, kind) == Cardinality({i \in DOMAIN lg : lg[i][1] = kind})
WriteIdx(lg) == {i \in DOMAIN lg : lg[i][1] \in {"write", "writefail"}}
Failures(lg) ==
    Count(lg, "writefail") + Count(lg, "connfail") + Count(lg, "notfound")
\* The calls between the start of _ensure_connected and the end of the write.
InSection == {t \in Callers : pc[t] \in {"connecting", "writing"}}
InFlight(t) == pc[t] \in {"waitLock", "locked", "connecting", "writing"}
\* The handle of the successful write of the last call that returned.
LastOk == IF ret = "ok" THEN log[Len(log)][2] ELSE 0
\* Nothing is running and nothing is scheduled.
Quiet ==
    /\ \A t \in Callers : ~InFlight(t)
    /\ pending = {}
    /\ ActiveDisc = 0
\* A step in which a disconnect() starts, and one in which a disconnect()
\* ends (some start and end in the same step).
DiscBegins ==
    \/ tasks' < tasks
    \/ unload = "none" /\ unload' # "none"
DiscEnds ==
    \/ tasks' < tasks /\ closing' = closing
    \/ \E c \in Ids : closing'[c] < closing[c]
    \/ unload \in {"none", "closing"} /\ unload' \notin {"none", "closing"}

\* ------------------------------------------------------------------ claims

\* C1: at most one send_command is between the start of its ensure-connected
\* step and the end of its write, and it is the one that owns the lock.
C1_OneWriteInFlight ==
    /\ Cardinality(InSection) <= 1
    /\ \A t \in InSection : holder = t
C1_Witness ==
    \E t, u \in Callers : pc[t] = "writing" /\ pc[u] = "waitLock"

\* C2: between two consecutive write attempts of a call the handle was
\* invalidated and a new one, different from the one that failed, was
\* acquired by connecting; a call whose write failed twice and then succeeded
\* returns success after exactly 3 write attempts; a call returns an error
\* only after MAX_ATTEMPTS failed attempts; while a retry is connecting the
\* cached handle is cleared.
C2_RetryReacquires ==
    /\ \A i, j \in WriteIdx(log) :
          (i < j /\ \A m \in WriteIdx(log) : ~(i < m /\ m < j)) =>
             /\ log[j][2] # log[i][2]
             /\ \E m, n \in DOMAIN log :
                   /\ i < m /\ m < n /\ n < j
                   /\ log[m][1] = "invalidate"
                   /\ log[n] = <<"connect", log[j][2]>>
    /\ (ret # "none" /\ Count(log, "writefail") = 2
          /\ log[Len(log)][1] = "write") =>
             ret = "ok" /\ Cardinality(WriteIdx(log)) = 3
    /\ ret = "ok" => log[Len(log)][1] = "write"
    /\ ret = "error" => Failures(log) = MAX_ATTEMPTS
    /\ \A t \in Callers : (pc[t] = "connecting" /\ attempt > 0) => client = 0
C2_Witness ==
    ret = "ok" /\ Count(log, "writefail") = 2 /\ Count(log, "connect") >= 2

\* C3: a call whose 3 attempts failed with a transport error leaves the
\* session disconnected: no handle is cached and no connection the call
\* opened is still live.
C3_FailureLeavesDisconnected ==
    (ret = "error" /\ Count(log, "writefail") + Count(log, "connfail") = 3) =>
       /\ client = 0
       /\ \A i \in DOMAIN log : log[i][1] = "connect" => log[i][2] \notin liveConns

\* C4: device-not-found propagates on the attempt that met it: the address is
\* not resolved again in that call.
C4_NotFoundNotRetried ==
    Count(log, "notfound") <= 1

\* C5: the disconnect() started by the idle timer is never closing the
\* transport while a send_command that owns the lock is writing.
C5_NoIdleCloseDuringWrite ==
    ~ \E c \in Ids, t \in Callers :
         closing[c] > 0 /\ pc[t] = "writing"

\* C6: at most one connection of the coordinator is live, and a live
\* connection is the one the session handle refers to.
C6_AtMostOneLive ==
    /\ Cardinality(liveConns) <= 1
    /\ liveConns \subseteq {client}

\* C7: once a send_command succeeded and nothing more is issued, running or
\* scheduled, the session is disconnected: the cached handle is not a live
\* connection and the connection just written to was closed or is down.
C7_IdleDisconnects ==
    (Quiet /\ ret = "ok") =>
       /\ client \notin liveConns
       /\ LastOk \notin liveConns \/ LastOk \in closeCalled

C9_StaleDisconnectInert ==
    [][overtaken' < overtaken => closing' = closing]_vars

\* C10: every send_command call ends (from some point on no call is in flight:
\* a caller makes one call, so this says that each call made has ended); a
\* call that ended does not own the lock and does not wait for it; after a
\* call that failed the lock is free or handed to the next caller, and no
\* handle is cached, so that the next call resolves the address and connects.
C10_Safe ==
    /\ \A t \in Callers : pc[t] = "done" =>
          holder # t /\ \A i \in DOMAIN waiters : waiters[i] # t
    /\ holder # 0 => InFlight(holder) /\ pc[holder] # "waitLock"
    /\ \A i \in DOMAIN waiters : pc[waiters[i]] = "waitLock" /\ holder # 0
    /\ ret = "error" =>
          /\ client = 0
          /\ holder = 0 \/ pc[holder] = "locked"
C10_FailureNotFatal ==
    /\ []C10_Safe
    /\ <>[](\A t \in Callers : ~InFlight(t))
    /\ [][\A t \in Callers :
             (ret = "error" /\ pc[t] \in {"idle", "locked"}
                /\ pc'[t] \notin {"idle", "locked", "waitLock"}) =>
                log'[1][1] \in {"resolve", "notfound"}]_vars
C10_Witness ==
    /\ ret = "error"
    /\ Failures(log) = MAX_ATTEMPTS
    /\ \E t \in Callers : pc[t] = "locked"

\* ----------------------------------------------- reading an encoder result
\* The recorded call was to function name and returned.
Returned(name) == op = name /\ err = "none"
\* A frame is 20 bytes and its byte 19 is the XOR of its bytes 0..18.
FrameValid(f) == Len(f) = 20 /\ f[20] = XorFrom(0, SubSeq(f, 1, 19))
AllBytes(s) == \A i \in DOMAIN s : IsByte(s[i])
\* x brought into lo..hi.
Limited(lo, hi, x) == IF x < lo THEN lo ELSE IF x > hi THEN hi ELSE x
\* Bit k of the byte x is set.
Bit(x, k) == (x \div (2 ^ k)) % 2 = 1
\* The single-frame command builders of protocol.py.
Builders == {"build_power", "build_brightness", "build_color_rgb",
             "build_color_temp", "build_scene", "build_music_mode",
             "build_segment_color"}

\* C11: for a type byte, an action byte and at most 17 params bytes,
\* build_packet returns 20 bytes: type, action, zeros after the params up to
\* byte 18, byte 19 the XOR of bytes 0..18, so that the XOR of all 20 is 0.
C11_FrameShape ==
    (op = "build_packet" /\ IsByte(args[1]) /\ IsByte(args[2])
        /\ AllBytes(args[3]) /\ Len(args[3]) <= 17) =>
       /\ err = "none"
       /\ Len(out) = 20
       /\ out[1] = args[1] /\ out[2] = args[2]
       /\ \A i \in (3 + Len(args[3]))..19 : out[i] = 0
       /\ out[20] = XorFrom(0, SubSeq(out, 1, 19))
       /\ XorFrom(0, out) = 0
C11_Witness ==
    /\ Returned("build_packet")
    /\ Len(args[3]) = 17
    /\ out[20] # 0
    /\ out[19] # 0

\* C12: for more than 17 params bytes build_packet returns a 20-byte frame
\* whose bytes 2..18 are the first 17 params and whose byte 19 is the XOR of
\* bytes 0..18.
C12_LongParamsTruncated ==
    (op = "build_packet" /\ IsByte(args[1]) /\ IsByte(args[2])
        /\ AllBytes(args[3]) /\ Len(args[3]) > 17) =>
       /\ err = "none"
       /\ FrameValid(out)
       /\ \A i \in 1..17 : out[2 + i] = args[3][i]
C12_Witness ==
    /\ Returned("build_packet")
    /\ Len(args[3]) = 19
    /\ args[3][18] # 0

\* C13: build_packet accepts a command type or action wider than a byte (a
\* non-negative integer) and puts its low 8 bits in byte 0 or byte 1.
C13_WideValuesMasked ==
    (op = "build_packet" /\ args[1] >= 0 /\ args[2] >= 0
        /\ AllBytes(args[3])) =>
       /\ err = "none"
       /\ out[1] = args[1] % 256
       /\ out[2] = args[2] % 256

\* C14: every frame prepare_multi_packet returns is 20 bytes with a valid
\* checksum, and the number of frames is byte 3 of the first frame.
C14_FragmentsValid ==
    Returned("prepare_multi_packet") =>
       /\ \A k \in DOMAIN out : FrameValid(out[k])
       /\ Len(out) = out[1][4]

\* C15: in a returned sequence the first frame is the only initial frame
\* (byte 1 = 0, byte 2 = 1), the last is the only terminator (byte 1 = 255),
\* and the k-th frame between them has byte 1 = k.
C15_FragmentOrder ==
    Returned("prepare_multi_packet") =>
       /\ Len(out) >= 2
       /\ out[1][2] = 0 /\ out[1][3] = 1
       /\ out[Len(out)][2] = 255
       /\ \A k \in 2..(Len(out) - 1) : out[k][2] = k - 1
       /\ \A k \in 2..Len(out) : out[k][2] # 0
       /\ \A k \in 1..(Len(out) - 1) : out[k][2] # 255
C15_Witness ==
    /\ Returned("prepare_multi_packet")
    /\ Len(out) = 4
    /\ out[3][2] = 2

\* C16: when the excess Len(data) - (15 - Len(header)) is 17 * k, k > 0,
\* prepare_multi_packet returns k - 1 continuation frames and a terminator
\* whose bytes 2..18 are the last 17 bytes of data.
C16_FullLastChunk ==
    LET excess == Len(args[3]) - (15 - Len(args[2]))
        k == excess \div 17
        n == Len(args[3])
    IN  (op = "prepare_multi_packet" /\ excess > 0 /\ excess % 17 = 0) =>
           /\ err = "none"
           /\ Len(out) = k + 1
           /\ n >= 17
           /\ \A i \in 1..17 : out[k + 1][2 + i] = args[3][n - 17 + i]

\* C17: build_brightness puts the percentage limited to 0..100 in byte 2;
\* build_color_rgb and build_segment_color put R, G, B limited to 0..255 in
\* bytes 4, 5, 6.
C17_Clamped ==
    /\ op = "build_brightness" =>
          err = "none" /\ out[3] = Limited(0, 100, args[1])
    /\ op \in {"build_color_rgb", "build_segment_color"} =>
          /\ err = "none"
          /\ \A i \in 1..3 : out[4 + i] = Limited(0, 255, args[i])
C17_Witness ==
    /\ Returned("build_color_rgb")
    /\ args[1] < 0 /\ args[2] > 255 /\ args[3] \in 1..254
    /\ out[5] = 0 /\ out[6] = 255 /\ out[7] = args[3]

\* C18: a command builder returns a 20-byte frame with a valid checksum for
\* every integer argument; it raises for none.
C18_BuildersNeverRaise ==
    op \in Builders => err = "none" /\ FrameValid(out)

\* C19: build_segment_color sets in byte 12 exactly the bits n - 1 of the
\* listed n in 1..8, in byte 13 exactly the bits n - 9 of the listed n in
\* 9..15, and never bit 7 of byte 13; other values set no bit.
C19_SegmentMask ==
    LET listed(n) == \E i \in DOMAIN args[4] : args[4][i] = n
    IN  op = "build_segment_color" =>
           /\ err = "none"
           /\ \A n \in 1..8 : Bit(out[13], n - 1) <=> listed(n)
           /\ \A n \in 9..15 : Bit(out[14], n - 9) <=> listed(n)
           /\ ~Bit(out[14], 7)
C19_Witness ==
    /\ Returned("build_segment_color")
    /\ args[4] = <<16, 9>>
    /\ out[13] = 0 /\ out[14] = 1

\* C20: prepare_packet(cmd, payload) of the legacy encoder returns what
\* build_packet(0x33, cmd, payload) returns, for every command byte and every
\* payload of bytes of any length, and neither raises.
C20_LegacyAgrees ==
    (op = "prepare_packet" /\ IsByte(args[1]) /\ AllBytes(args[2])) =>
       /\ err = "none"
       /\ build_packet(51, args[1], args[2]).err = "none"
       /\ out = build_packet(51, args[1], args[2]).val

\* ------------------------------------------------- reading the light calls
\* The calls of async_turn_on: their first frame is the power-on frame.
OnCalls == {c \in LCallers : sent[c] # <<>> /\ sent[c][1] = PowerOn}
Ended(c) == lpc[c] \in {"done", "raised"}
IsPrefix(s, t) == Len(s) <= Len(t) /\ \A i \in 1..Len(s) : s[i] = t[i]
KnownEffect(kw) == kw.effect \in DOMAIN SCENE_IDS
\* The frames of a call with the keyword arguments kw: power-on, brightness,
\* RGB color, color temperature, effect.
Wanted(kw) ==
    <<PowerOn>>
    \o (IF kw.brightness # NoBrightness
        THEN <<build_brightness(brightness_pct_of(kw.brightness)).val>>
        ELSE <<>>)
    \o (IF kw.rgb_color # NoColor
        THEN <<build_color_rgb(kw.rgb_color[1], kw.rgb_color[2],
                               kw.rgb_color[3]).val>>
        ELSE <<>>)
    \o (IF kw.color_temp_kelvin # NoneKelvin
        THEN <<build_color_temp(kw.color_temp_kelvin).val>>
        ELSE <<>>)
    \o (IF KnownEffect(kw)
        THEN <<build_scene(SCENE_IDS[kw.effect]).val>>
        ELSE <<>>)
\* Wanted, computed once for each kw.
WantedTable == {<<kw, Wanted(kw)>> : kw \in Kwargs}
WantedOf(kw) == (CHOOSE p \in WantedTable : p[1] = kw)[2]
\* How many of brightness, rgb_color, color_temp_kelvin and a known effect a
\* call has.
Optional(kw) == Len(WantedOf(kw)) - 1
\* A call awaits one send_command at a time.
OneSend ==
    \A c \in LCallers :
       Cardinality({i \in DOMAIN sendq : sendq[i] = c}) =
          IF lpc[c] \in Awaiting THEN 1 ELSE 0
\* A step that begins a call of async_turn_on submits the power-on frame;
\* any other step that submits a frame of a call is the step in which the
\* send_command the call awaited has returned.
OneAtATime ==
    \A c \in LCallers :
       /\ (lpc[c] \notin Awaiting /\ lpc'[c] = "power") =>
             sent'[c] = <<PowerOn>>
       /\ (lpc[c] \in Awaiting /\ sent'[c] # sent[c]) =>
             /\ Head(sendq) = c
             /\ lpc'[c] \in Awaiting
             /\ Len(sent'[c]) = Len(sent[c]) + 1
             /\ IsPrefix(sent[c], sent'[c])

\* C21: async_turn_on submits the power-on frame first and then at most one
\* frame each for brightness, RGB color, color temperature and effect, in
\* that order, each only in the step in which the call's previous
\* send_command returned; a call whose every send_command returned has
\* submitted exactly the power-on frame and one frame for each optional
\* argument it has (one frame with none, two with exactly one); a call whose
\* send_command raised has submitted no frame after the one that raised.
C21_FramesInOrder ==
    /\ [](OneSend /\ \A c \in OnCalls :
                        LET frames == WantedOf(kwargs[c])
                        IN  /\ IsPrefix(sent[c], frames)
                            /\ lpc[c] = "done" => sent[c] = frames)
    /\ [][OneAtATime]_vars
C21_Witness ==
    \E c \in OnCalls :
       /\ lpc[c] = "done"
       /\ kwargs[c] = [NoKwargs EXCEPT !.brightness = 128]
       /\ Len(sent[c]) = 2
       /\ SubSeq(sent[c][2], 1, 3) = <<51, 4, 50>>
\* C21 as stated: an ended call with no optional argument has submitted
\* exactly one frame, one with exactly one of them exactly two.
C21_ExactCounts ==
    \A c \in OnCalls :
       Ended(c) =>
          /\ IsPrefix(sent[c], WantedOf(kwargs[c]))
          /\ Optional(kwargs[c]) = 0 => Len(sent[c]) = 1
          /\ Optional(kwargs[c]) = 1 => Len(sent[c]) = 2

\* A step in which _ensure_connected returns a client to the call t: the
\* call goes on to write_gatt_char.
EnsureReturns(t) ==
    pc'[t] = "writing" /\ (pc[t] # "writing" \/ attempt' # attempt)

\* C22: when _ensure_connected returns the cached client (it was reported
\* connected), it is the client that was cached, the address is not resolved
\* and no connection is opened in that step; after every return of a client
\* by _ensure_connected, reused or newly connected, exactly one timer is
\* scheduled, the one self._disconnect_timer refers to.
C22_ReuseAndRearm ==
    [][\A t \in Callers :
          EnsureReturns(t) =>
             LET e == log'[Len(log')]
             IN  /\ e[1] \in {"reuse", "connect"}
                 /\ e[1] = "reuse" =>
                       /\ client # 0 /\ client \in liveConns
                       /\ client' = client /\ cur' = client /\ e[2] = client
                       /\ log' = <<e>> \/ log' = Append(log, e)
                       /\ liveConns' \subseteq liveConns
                 /\ e[1] = "connect" => client' = e[2] /\ cur' = e[2]
                 /\ pending' = {disconnect_timer'}]_vars
C22_Witness ==
    \E t \in Callers :
       /\ pc[t] = "writing"
       /\ log = << <<"reuse", client>> >>
       /\ cur = client /\ client \in liveConns
       /\ pending = {disconnect_timer}

\* The optimistic state fields a step changes.
Changed ==
    (IF is_on' # is_on THEN {"is_on"} ELSE {})
    \cup (IF brightness_pct' # brightness_pct THEN {"brightness_pct"} ELSE {})
    \cup (IF rgb_color' # rgb_color THEN {"rgb_color"} ELSE {})
    \cup (IF color_temp_kelvin' # color_temp_kelvin
          THEN {"color_temp_kelvin"} ELSE {})
    \cup (IF effect' # effect THEN {"effect"} ELSE {})
    \cup (IF color_mode' # color_mode THEN {"color_mode"} ELSE {})
\* The fields whose value a frame carries.
Belongs(p) ==
    CASE p \in {"power", "off"} -> {"is_on"}
      [] p = "brightness" -> {"brightness_pct"}
      [] p = "rgb_color" -> {"rgb_color", "color_mode"}
      [] p = "color_temp_kelvin" -> {"color_temp_kelvin", "color_mode"}
      [] p = "effect" -> {"effect"}
\* The fields that also change with a frame: the effect is cleared with the
\* power-on frame and with either color frame, the color temperature with
\* the RGB color frame.
Cleared(p) ==
    CASE p \in {"power", "color_temp_kelvin"} -> {"effect"}
      [] p = "rgb_color" -> {"effect", "color_temp_kelvin"}
      [] OTHER -> {}
\* Fields change only in the step in which the send_command a call awaited
\* has returned, and only the fields in after(p) for the frame p it sent; a
\* step in which a send_command raises changes no field, and the call
\* submits no frame in that step or after it.
FieldsFollowFrames(after(_)) ==
    /\ Changed # {} =>
          /\ sendq # <<>>
          /\ lpc[Head(sendq)] \in Awaiting
          /\ lpc'[Head(sendq)] # "raised"
          /\ Changed \subseteq after(lpc[Head(sendq)])
    /\ \A c \in LCallers : lpc'[c] = "raised" => sent'[c] = sent[c]
BelongsOrCleared(p) == Belongs(p) \cup Cleared(p)

\* C23: an optimistic state field changes only in the step in which the
\* send_command of a frame of async_turn_on or async_turn_off has returned:
\* the fields whose value the frame carries, and with the power-on frame the
\* effect (cleared), with the RGB color frame the effect and the color
\* temperature (cleared), with the color temperature frame the effect
\* (cleared).  When a send_command raises, no field changes in that step and
\* the call submits no later frame.
C23_FieldsAfterSend == [][FieldsFollowFrames(BelongsOrCleared)]_vars
C23_Witness ==
    \E c \in OnCalls :
       /\ lpc[c] = "raised"
       /\ kwargs[c].brightness = 128 /\ kwargs[c].rgb_color # NoColor
       /\ Len(sent[c]) = 2
       /\ is_on /\ brightness_pct = 100 /\ rgb_color = <<255, 255, 255>>
\* C23 as stated: a field changes only after the frame that carries its
\* value has been sent.
C23_OnlyOwnFrame == [][FieldsFollowFrames(Belongs)]_vars

\* The data a fragment sequence carries for a header of h bytes, byte by
\* byte: the first 15 - h bytes in the initial frame from byte 4 + h on, the
\* following ones 17 to a frame in bytes 2..18 of the frames after it, the
\* last of these frames being the terminator.
Carries(frames, h, data) ==
    LET space == 15 - h
        excess == Len(data) - space
    IN  /\ Len(frames) = IF excess <= 0 THEN 2 ELSE 1 + ((excess + 16) \div 17)
        /\ \A i \in 1..Len(data) :
              data[i] = IF i <= space THEN frames[1][4 + h + i]
                        ELSE frames[2 + ((i - space - 1) \div 17)]
                                   [3 + ((i - space - 1) % 17)]

\* C24: for every header of at most 15 bytes and every data sequence,
\* prepare_multi_packet returns frames whose data regions, taken in order
\* (initial frame, continuation frames, leading bytes of the terminator), are
\* exactly data, and whose initial frame holds the header unchanged in bytes
\* 4 .. 3 + len(header).
C24_NothingLost ==
    (op = "prepare_multi_packet" /\ Len(args[2]) <= 15) =>
       /\ err = "none"
       /\ Carries(out, Len(args[2]), args[3])
       /\ \A j \in DOMAIN args[2] : out[1][4 + j] = args[2][j]

\* C25: for data of every length (and a header of at most 15 bytes),
\* prepare_multi_packet returns a sequence in which byte 1 of every
\* continuation frame is between 1 and 254 and byte 3 of the initial frame is
\* the number of frames; no item assignment overflows.
C25_OneByteFields ==
    (op = "prepare_multi_packet" /\ Len(args[2]) <= 15) =>
       /\ err = "none"
       /\ \A k \in 2..(Len(out) - 1) : out[k][2] \in 1..254
       /\ out[1][4] = Len(out)

====
